---------------------------- MODULE Spec2Model ----------------------------
(***************************************************************************)
(* Model of api/index.py: the latency analytics API.                       *)
(*                                                                         *)
(* The module-level load of the telemetry file, the statistics helpers     *)
(* mean and percentile, and the POST /analytics handler, whose loop over   *)
(* the requested regions is one step per iteration so that handlers        *)
(* running on different worker threads interleave.                         *)
(*                                                                         *)
(* Numbers.  Python floats are modelled as exact rationals <<n, d>> with   *)
(* d > 0 in lowest terms; floating-point rounding is not modelled.         *)
(***************************************************************************)
EXTENDS Integers, Sequences, FiniteSets

VARIABLES
    source,          \* the content of q-vercel-latency.json on disk
    store,           \* "Uninitialized", "Loaded", or "Failed" (import raised)
    telemetry_data,  \* the module global set by json.load
    pc,              \* per worker: "idle", "loop", "done"
    body,            \* per worker: the request body being handled
    idx,             \* per worker: 1-based position of the for loop in regions
    response,        \* per worker: the dict built by the handler
    status,          \* per worker: HTTP status of the answer, 0 while none
    detail,          \* per worker: the detail message of an error answer
    values,          \* percentile harness: the argument values
    p,               \* percentile harness: the argument p
    result           \* percentile harness: what the call produced

vars == <<source, store, telemetry_data, pc, body, idx, response, status, detail,
          values, p, result>>

server_vars ==
    <<source, store, telemetry_data, pc, body, idx, response, status, detail>>

harness_vars == <<values, p, result>>

-----------------------------------------------------------------------------
(* Bounds of the model.                                                    *)

MaxRecords == 2

MaxRegions == 2

MaxValues == 4

-----------------------------------------------------------------------------
(* Exact rational arithmetic standing for Python float arithmetic.         *)

RECURSIVE GCD(_, _)
GCD(a, b) == IF b = 0 THEN a ELSE GCD(b, a % b)

Abs(x) == IF x < 0 THEN -x ELSE x

Norm(n, d) ==
    LET g == GCD(Abs(n), Abs(d))
        s == IF d < 0 THEN -1 ELSE 1
    IN  <<(s * n) \div g, (s * d) \div g>>

Float(n) == <<n, 1>>

Zero == Float(0)

RAdd(a, b) == Norm(a[1] * b[2] + b[1] * a[2], a[2] * b[2])

RSub(a, b) == Norm(a[1] * b[2] - b[1] * a[2], a[2] * b[2])

RMul(a, b) == Norm(a[1] * b[1], a[2] * b[2])

RDiv(a, b) == Norm(a[1] * b[2], a[2] * b[1])

RLt(a, b) == a[1] * b[2] < b[1] * a[2]

RLe(a, b) == a[1] * b[2] <= b[1] * a[2]

\* math.floor, math.ceil and int() on a float
Floor(a) == a[1] \div a[2]

Ceil(a) == -((-a[1]) \div a[2])

Trunc(a) == IF a[1] >= 0 THEN a[1] \div a[2] ELSE -((-a[1]) \div a[2])

-----------------------------------------------------------------------------
(* Python built-ins used by the helpers.                                   *)

RECURSIVE sum(_)
sum(vs) == IF vs = <<>> THEN Zero ELSE RAdd(vs[1], sum(Tail(vs)))

\* insert v into the ascending sequence s, after the elements equal to it
RECURSIVE Insert(_, _)
Insert(s, v) ==
    IF s = <<>> THEN <<v>>
    ELSE IF RLt(v, s[1]) THEN <<v>> \o s
    ELSE <<s[1]>> \o Insert(Tail(s), v)

\* the list left in the order given
unsorted(vs) == vs

RECURSIVE sorted(_)
sorted(vs) ==
    IF vs = <<>> THEN <<>>
    ELSE Insert(sorted(SubSeq(vs, 1, Len(vs) - 1)), vs[Len(vs)])

\* s[i] for a Python list s and int i: negative i counts from the end, and an
\* index outside -len..len-1 raises IndexError
InRange(s, i) == -Len(s) <= i /\ i < Len(s)

Subscript(s, i) == IF i >= 0 THEN s[i + 1] ELSE s[Len(s) + i + 1]

-----------------------------------------------------------------------------
(* The statistics helpers.                                                 *)

mean(vs) ==
    IF vs = <<>> THEN Zero
    ELSE RDiv(sum(vs), Float(Len(vs)))

\* the fractional rank k = (p / 100) * (len(sorted_vals) - 1)
RankShifted(q, n) == RMul(RDiv(q, Float(100)), Float(n))

Rank(q, n) == RMul(RDiv(q, Float(100)), Float(n - 1))

Returned(v) == [exc |-> "none", val |-> v]

Raised(e) == [exc |-> e, val |-> Zero]

percentile(vs, q) ==
    IF vs = <<>> THEN Returned(Zero)
    ELSE
        LET sorted_vals == sorted(vs)
            k == Rank(q, Len(sorted_vals))
            f == Floor(k)
            c == Ceil(k)
        IN  IF f = c
            THEN IF InRange(sorted_vals, Trunc(k))
                 THEN Returned(Subscript(sorted_vals, Trunc(k)))
                 ELSE Raised("IndexError")
            ELSE IF InRange(sorted_vals, f) /\ InRange(sorted_vals, c)
                 THEN Returned(RAdd(Subscript(sorted_vals, f),
                                    RMul(RSub(Subscript(sorted_vals, c),
                                              Subscript(sorted_vals, f)),
                                         RSub(k, Float(f)))))
                 ELSE Raised("IndexError")


-----------------------------------------------------------------------------
(* Python dicts, as functions from keys to values.                         *)

EmptyDict == <<>>

\* d = {k: v}: the dict rebuilt instead of updated
DictOnly(d, k, v) == [y \in {k} |-> v]

\* d[k] = v
DictSet(d, k, v) == [y \in (DOMAIN d) \cup {k} |-> IF y = k THEN v ELSE d[y]]

-----------------------------------------------------------------------------
(* The telemetry file and the request bodies the model draws from.         *)
(* A JSON number is its decimal literal <<digits, 10^k>>; float() gives    *)
(* the rational in lowest terms.                                           *)

float(x) == Norm(x[1], x[2])

Workers == {"w1", "w2"}

RegionIds == {"us-east", "US-EAST"}

Thresholds == {<<100, 1>>, <<150, 1>>}

WellFormedRecords ==
    { [region |-> "us-east", latency_ms |-> <<100, 1>>, uptime |-> <<99, 100>>],
      [region |-> "us-east", latency_ms |-> <<200, 1>>, uptime |-> <<95, 100>>],
      [region |-> "US-EAST", latency_ms |-> <<200, 1>>, uptime |-> <<99, 100>>] }

\* JSON objects that json.load accepts although a field is absent
IncompleteRecords ==
    { [region |-> "US-EAST", uptime |-> <<99, 100>>],
      [region |-> "US-EAST", latency_ms |-> <<100, 1>>],
      [latency_ms |-> <<100, 1>>, uptime |-> <<99, 100>>] }

SeqsUpTo(S, n) == UNION {[1..k -> S] : k \in 0..n}

Sources(records) ==
    { [kind |-> "missing", data |-> <<>>],
      [kind |-> "unparseable", data |-> <<>>] }
    \cup { [kind |-> "json", data |-> d] : d \in SeqsUpTo(records, MaxRecords) }

WellFormed(r) == DOMAIN r = {"region", "latency_ms", "uptime"}

ValidBodies ==
    [kind : {"valid"}, regions : SeqsUpTo(RegionIds, MaxRegions),
     threshold_ms : Thresholds]

\* bodies that do not parse as an AnalyticsRequest; the fields that are absent
\* or wrongly typed are shown empty
MalformedBodies ==
    { [kind |-> "not_json", regions |-> <<>>, threshold_ms |-> Zero],
      [kind |-> "regions_missing", regions |-> <<>>, threshold_ms |-> <<150, 1>>],
      [kind |-> "regions_not_list", regions |-> <<>>, threshold_ms |-> <<150, 1>>],
      [kind |-> "threshold_missing", regions |-> <<"us-east">>, threshold_ms |-> Zero],
      [kind |-> "threshold_not_number", regions |-> <<"us-east">>, threshold_ms |-> Zero] }

Bodies == ValidBodies \cup MalformedBodies

NoBody == [kind |-> "none", regions |-> <<>>, threshold_ms |-> Zero]

NoResult == [exc |-> "pending", val |-> Zero]

-----------------------------------------------------------------------------
(* The request schema and the handler's computations.                      *)

\* a schema whose threshold_ms accepts anything
ParsesLax(b) == b.kind \in {"valid", "threshold_not_number"}

\* the body parses as AnalyticsRequest(regions: List[str], threshold_ms: float)
Parses(b) == b.kind = "valid"

EmptyCheckDropped(regions) == FALSE

\* not regions
IsEmpty(regions) == regions = <<>>

Lower(s) == IF s = "US-EAST" THEN "us-east" ELSE s

RegionMatchesNoCase(r, region) ==
    "region" \in DOMAIN r /\ Lower(r.region) = Lower(region)

\* r.get("region") == region
RegionMatches(r, region) == "region" \in DOMAIN r /\ r.region = region

\* [r for r in telemetry_data if r.get("region") == region]
RECURSIVE Filter(_, _)
Filter(data, region) ==
    IF data = <<>> THEN <<>>
    ELSE (IF RegionMatches(data[1], region) THEN <<data[1]>> ELSE <<>>)
         \o Filter(Tail(data), region)

\* [float(r[key]) for r in region_records], for records that all have key
RECURSIVE Column(_, _)
Column(region_records, key) ==
    IF region_records = <<>> THEN <<>>
    ELSE <<float(region_records[1][key])>> \o Column(Tail(region_records), key)

HasKey(region_records, key) ==
    \A i \in 1..Len(region_records) : key \in DOMAIN region_records[i]

RECURSIVE CountBreachesInclusive(_, _)
CountBreachesInclusive(latencies, threshold) ==
    IF latencies = <<>> THEN 0
    ELSE (IF RLe(threshold, latencies[1]) THEN 1 ELSE 0)
         + CountBreachesInclusive(Tail(latencies), threshold)

\* sum(1 for v in latencies if v > threshold)
RECURSIVE CountBreaches(_, _)
CountBreaches(latencies, threshold) ==
    IF latencies = <<>> THEN 0
    ELSE (IF RLt(threshold, latencies[1]) THEN 1 ELSE 0)
         + CountBreaches(Tail(latencies), threshold)

ZeroSummary ==
    [avg_latency |-> Zero, p95_latency |-> Zero, avg_uptime |-> Zero, breaches |-> 0]

NoDataSkipped(resp, region) == resp

\* the branch taken when no record matches the region
NoData(resp, region) == DictSet(resp, region, ZeroSummary)

\* one iteration of the for loop over the already filtered records: the
\* response dict after it, or the exception it raises
Summarize(resp, region, region_records, threshold) ==
    IF ~HasKey(region_records, "latency_ms") THEN Raised("KeyError")
    ELSE IF ~HasKey(region_records, "uptime") THEN Raised("KeyError")
    ELSE
        LET latencies == Column(region_records, "latency_ms")
            uptimes == Column(region_records, "uptime")
            p95_latency == percentile(latencies, Float(95))
        IN  IF p95_latency.exc # "none" THEN Raised(p95_latency.exc)
            ELSE Returned(DictSet(resp, region,
                     [avg_latency |-> mean(latencies),
                      p95_latency |-> p95_latency.val,
                      avg_uptime |-> mean(uptimes),
                      breaches |-> CountBreaches(latencies, threshold)]))

Iteration(data, resp, region, threshold) ==
    LET region_records == Filter(data, region)
    IN  IF region_records = <<>> THEN Returned(NoData(resp, region))
        ELSE Summarize(resp, region, region_records, threshold)

-----------------------------------------------------------------------------
(* Startup: the import of the module loads the file once.                  *)

ServerIdle ==
    /\ pc = [w \in Workers |-> "idle"]
    /\ body = [w \in Workers |-> NoBody]
    /\ idx = [w \in Workers |-> 0]
    /\ response = [w \in Workers |-> EmptyDict]
    /\ status = [w \in Workers |-> 0]
    /\ detail = [w \in Workers |-> ""]

HarnessIdle == values = <<>> /\ p = Zero /\ result = NoResult

Init ==
    /\ source \in Sources(WellFormedRecords)
    /\ store = "Uninitialized"
    /\ telemetry_data = <<>>
    /\ ServerIdle
    /\ HarnessIdle

\* open() and json.load succeed
Load ==
    /\ store = "Uninitialized"
    /\ source.kind = "json"
    /\ telemetry_data' = source.data
    /\ store' = "Loaded"
    /\ UNCHANGED <<source, pc, body, idx, response, status, detail, harness_vars>>

\* open() raises FileNotFoundError or json.load raises JSONDecodeError: the
\* import fails and the application never serves
LoadFails ==
    /\ store = "Uninitialized"
    /\ source.kind # "json"
    /\ store' = "Failed"
    /\ UNCHANGED <<source, telemetry_data, pc, body, idx, response, status,
                   detail, harness_vars>>

-----------------------------------------------------------------------------
(* POST /analytics on worker w.                                            *)

Answer(w, code, msg) ==
    /\ pc' = [pc EXCEPT ![w] = "done"]
    /\ status' = [status EXCEPT ![w] = code]
    /\ detail' = [detail EXCEPT ![w] = msg]

\* request validation, then the handler up to the start of its loop
PostAnalytics(w, b) ==
    /\ store = "Loaded"
    /\ pc[w] = "idle"
    /\ body' = [body EXCEPT ![w] = b]
    /\ IF ~Parses(b)
       THEN Answer(w, 422, "validation error") /\ UNCHANGED <<idx, response>>
       ELSE IF IsEmpty(b.regions)
       THEN Answer(w, 400, "regions list cannot be empty")
            /\ UNCHANGED <<idx, response>>
       ELSE /\ pc' = [pc EXCEPT ![w] = "loop"]
            /\ idx' = [idx EXCEPT ![w] = 1]
            /\ response' = [response EXCEPT ![w] = EmptyDict]
            /\ UNCHANGED <<status, detail>>
    /\ UNCHANGED <<source, store, telemetry_data, harness_vars>>

\* one iteration of the for loop, without its effect on telemetry_data
IterateStep(w) ==
    /\ pc[w] = "loop"
    /\ idx[w] <= Len(body[w].regions)
    /\ LET out == Iteration(telemetry_data, response[w],
                            body[w].regions[idx[w]], body[w].threshold_ms)
       IN  IF out.exc # "none"
           THEN /\ Answer(w, 500, "Internal Server Error")
                /\ response' = [response EXCEPT ![w] = EmptyDict]
                /\ UNCHANGED idx
           ELSE /\ response' = [response EXCEPT ![w] = out.val]
                /\ idx' = [idx EXCEPT ![w] = idx[w] + 1]
                /\ UNCHANGED <<pc, status, detail>>
    /\ UNCHANGED <<source, store, body, harness_vars>>

\* an iteration that removes the records it has read from the global list
IterateDraining(w) ==
    /\ IterateStep(w)
    /\ telemetry_data' =
           SelectSeq(telemetry_data,
                     LAMBDA r : ~RegionMatches(r, body[w].regions[idx[w]]))

Iterate(w) == IterateStep(w) /\ UNCHANGED telemetry_data

\* return response
Return(w) ==
    /\ pc[w] = "loop"
    /\ idx[w] > Len(body[w].regions)
    /\ Answer(w, 200, "")
    /\ UNCHANGED <<source, store, telemetry_data, body, idx, response, harness_vars>>

\* the answer is sent and the worker takes the next request
Respond(w) ==
    /\ pc[w] = "done"
    /\ pc' = [pc EXCEPT ![w] = "idle"]
    /\ body' = [body EXCEPT ![w] = NoBody]
    /\ idx' = [idx EXCEPT ![w] = 0]
    /\ response' = [response EXCEPT ![w] = EmptyDict]
    /\ status' = [status EXCEPT ![w] = 0]
    /\ detail' = [detail EXCEPT ![w] = ""]
    /\ UNCHANGED <<source, store, telemetry_data, harness_vars>>

Next ==
    \/ Load
    \/ LoadFails
    \/ \E w \in Workers : \E b \in Bodies : PostAnalytics(w, b)
    \/ \E w \in Workers : Iterate(w)
    \/ \E w \in Workers : Return(w)
    \/ \E w \in Workers : Respond(w)

Spec == Init /\ [][Next]_vars

\* the same program started on a file whose records may lack fields
InitRaw ==
    /\ source \in Sources(WellFormedRecords \cup IncompleteRecords)
    /\ store = "Uninitialized"
    /\ telemetry_data = <<>>
    /\ ServerIdle
    /\ HarnessIdle

SpecRaw == InitRaw /\ [][Next]_vars

-----------------------------------------------------------------------------
(* percentile called on its own, on arguments drawn from small sets.       *)

SampleValues == {Float(-1), Float(1), Float(2), Float(3), Float(4), Float(5)}

SampleP ==
    {Float(-50), Float(0), Float(25), Float(50), Float(95), <<199, 2>>,
     Float(100), Float(150)}

InitPercentile ==
    /\ source = [kind |-> "missing", data |-> <<>>]
    /\ store = "Uninitialized"
    /\ telemetry_data = <<>>
    /\ ServerIdle
    /\ values \in SeqsUpTo(SampleValues, MaxValues)
    /\ p \in SampleP
    /\ result = NoResult

CallPercentile ==
    /\ result = NoResult
    /\ result' = percentile(values, p)
    /\ UNCHANGED <<values, p, server_vars>>

NextPercentile == CallPercentile

SpecPercentile == InitPercentile /\ [][NextPercentile]_vars

-----------------------------------------------------------------------------
(* Notions the properties are stated with.                                 *)

Range(s) == {s[i] : i \in 1..Len(s)}

Min(s) == CHOOSE v \in Range(s) : \A u \in Range(s) : RLe(v, u)

Max(s) == CHOOSE v \in Range(s) : \A u \in Range(s) : RLe(u, v)

Reverse(s) == [i \in 1..Len(s) |-> s[Len(s) + 1 - i]]

PInDomain == RLe(Zero, p) /\ RLe(p, Float(100))

\* the value at 0-based position j of the ascending arrangement of s, through
\* the number of elements below it
OrderStat(s, j) ==
    CHOOSE v \in Range(s) :
        /\ Cardinality({i \in 1..Len(s) : RLt(s[i], v)}) <= j
        /\ j < Cardinality({i \in 1..Len(s) : RLe(s[i], v)})

\* linear interpolation at q percent between the order statistics of s, for
\* a non-empty s and q in [0, 100]
Interpolated(s, q) ==
    LET n == Len(s)
        num == q[1] * (n - 1)
        den == 100 * q[2]
        lo == CHOOSE j \in 0..(n - 1) :
                  j * den <= num /\ (j = n - 1 \/ num < (j + 1) * den)
    IN  IF lo * den = num THEN OrderStat(s, lo)
        ELSE RAdd(OrderStat(s, lo),
                  RMul(RSub(OrderStat(s, lo + 1), OrderStat(s, lo)),
                       Norm(num - lo * den, den)))

-----------------------------------------------------------------------------
(* Properties of percentile.                                               *)

\* C5: for non-empty values and p in [0, 100], percentile returns without
\* raising, both floor(k) and ceil(k) index the list (0..n-1), and the result
\* lies between the least and the greatest value.
PercentileWithinBounds ==
    (result # NoResult /\ values # <<>> /\ PInDomain) =>
        LET k == Rank(p, Len(values))
        IN  /\ result.exc = "none"
            /\ 0 <= Floor(k) /\ Ceil(k) <= Len(values) - 1
            /\ RLe(Min(values), result.val)
            /\ RLe(result.val, Max(values))

\* a call on three unsorted values whose result lies strictly inside
PercentileWithinBoundsWitness ==
    /\ values = <<Float(4), Float(-1), Float(2)>>
    /\ p = Float(95)
    /\ result = Returned(<<19, 5>>)

\* C6: percentile is the linear-interpolation reference: 0.0 on the empty
\* list for any p; on a non-empty list and p in [0, 100] the interpolation
\* between the order statistics around k = (p/100)(n-1), whatever the order
\* of the input; percentile([1,2,3,4], 50) = 2.5; one element is returned as is.
PercentileIsInterpolation ==
    (result # NoResult) =>
        /\ values = <<>> => result = Returned(Zero)
        /\ (values # <<>> /\ PInDomain) =>
              /\ result = Returned(Interpolated(values, p))
              /\ percentile(Reverse(values), p) = result
              /\ Len(values) = 1 => result.val = values[1]
        /\ (values = <<Float(1), Float(2), Float(3), Float(4)>> /\ p = Float(50))
              => result = Returned(<<5, 2>>)

\* an interpolated result on an unsorted list
PercentileIsInterpolationWitness ==
    /\ values = <<Float(3), Float(1), Float(2)>>
    /\ p = Float(25)
    /\ result = Returned(<<3, 2>>)

-----------------------------------------------------------------------------
(* Notions the properties of the handler are stated with.                  *)

\* the positions of the loaded records whose region field is region
Matching(region) ==
    {i \in 1..Len(telemetry_data) :
        "region" \in DOMAIN telemetry_data[i] /\ telemetry_data[i].region = region}

\* the values of a field over the records at the positions I, in file order
FieldAt(I, key) ==
    LET recs == SelectSeq(telemetry_data,
                          LAMBDA r : \E i \in I : telemetry_data[i] = r)
    IN  [i \in 1..Len(recs) |-> float(recs[i][key])]

Requested(w) == Range(body[w].regions)

Succeeded(w) == pc[w] = "done" /\ status[w] = 200

\* what the handler answers to body b when it runs alone, start to end, on data
RECURSIVE RunAlone(_, _, _, _)
RunAlone(data, resp, regions, threshold) ==
    IF regions = <<>> THEN [status |-> 200, response |-> resp]
    ELSE LET out == Iteration(data, resp, regions[1], threshold)
         IN  IF out.exc # "none" THEN [status |-> 500, response |-> EmptyDict]
             ELSE RunAlone(data, out.val, Tail(regions), threshold)

Alone(data, b) ==
    IF b.kind # "valid" THEN [status |-> 422, response |-> EmptyDict]
    ELSE IF b.regions = <<>> THEN [status |-> 400, response |-> EmptyDict]
    ELSE RunAlone(data, EmptyDict, b.regions, b.threshold_ms)

-----------------------------------------------------------------------------
(* Properties of POST /analytics.                                          *)

\* C1: in every summary of a region with matching records, breaches is the
\* number of matching records whose latency_ms is strictly greater than the
\* request's threshold_ms; a latency equal to the threshold is not counted.
BreachesStrictlyAbove ==
    \A w \in Workers : \A region \in DOMAIN response[w] :
        Matching(region) # {} =>
            response[w][region].breaches =
                Cardinality({i \in Matching(region) :
                    RLt(body[w].threshold_ms, telemetry_data[i].latency_ms)})

\* a returned summary over one latency equal to the threshold and one above
BreachesStrictlyAboveWitness ==
    \E w \in Workers :
        /\ Succeeded(w)
        /\ body[w].threshold_ms = Float(100)
        /\ "us-east" \in DOMAIN response[w]
        /\ \E i, j \in Matching("us-east") :
              /\ telemetry_data[i].latency_ms = <<100, 1>>
              /\ telemetry_data[j].latency_ms = <<200, 1>>
        /\ response[w]["us-east"].breaches = 1

\* C2: a request with a non-empty regions list succeeds, every requested
\* region is summarized, and a requested region that equals no record's
\* region (case-sensitively) gets the all-zero summary.
MissingRegionIsZero ==
    \A w \in Workers :
        (pc[w] = "done" /\ body[w].kind = "valid" /\ body[w].regions # <<>>) =>
            /\ status[w] = 200
            /\ \A region \in Requested(w) :
                  /\ region \in DOMAIN response[w]
                  /\ Matching(region) = {} => response[w][region] = ZeroSummary

\* a returned response with the zero summary for a region that differs from
\* the stored one in case only, next to a summary of the stored region
MissingRegionIsZeroWitness ==
    \E w \in Workers :
        /\ Succeeded(w)
        /\ body[w].regions = <<"US-EAST", "us-east">>
        /\ Matching("US-EAST") = {} /\ Matching("us-east") # {}
        /\ response[w]["US-EAST"] = ZeroSummary
        /\ response[w]["us-east"] # ZeroSummary

\* C3: a well-formed request is answered 400 exactly when its regions list is
\* empty, for every threshold and dataset; the 400 answer carries a detail
\* message and no summary mapping.
EmptyRegionsIs400 ==
    \A w \in Workers :
        (pc[w] = "done" /\ body[w].kind = "valid") =>
            /\ status[w] = 400 <=> body[w].regions = <<>>
            /\ status[w] = 400 => (detail[w] # "" /\ response[w] = EmptyDict)

\* an empty regions list rejected while records are loaded
EmptyRegionsIs400Witness ==
    \E w \in Workers :
        /\ pc[w] = "done" /\ body[w].kind = "valid" /\ body[w].regions = <<>>
        /\ status[w] = 400
        /\ telemetry_data # <<>>

\* C4: the summary of a region with matching records is computed from exactly
\* the records whose region equals the requested identifier: the means of
\* their latency_ms and uptime and percentile(latencies, 95).  The dataset
\* [{us-east,100,0.99},{us-east,200,0.95}] with {regions:[us-east],
\* threshold_ms:150} yields 150, 195, 0.97 and 1 breach.
SummaryOfMatchingRecords ==
    \A w \in Workers :
        /\ \A region \in DOMAIN response[w] :
              Matching(region) # {} =>
                  LET lat == FieldAt(Matching(region), "latency_ms")
                      upt == FieldAt(Matching(region), "uptime")
                  IN  /\ response[w][region].avg_latency =
                             RDiv(sum(lat), Float(Cardinality(Matching(region))))
                      /\ response[w][region].p95_latency =
                             percentile(lat, Float(95)).val
                      /\ response[w][region].avg_uptime =
                             RDiv(sum(upt), Float(Cardinality(Matching(region))))
        /\ ( /\ pc[w] = "done"
             /\ body[w] = [kind |-> "valid", regions |-> <<"us-east">>,
                           threshold_ms |-> <<150, 1>>]
             /\ telemetry_data =
                    << [region |-> "us-east", latency_ms |-> <<100, 1>>,
                        uptime |-> <<99, 100>>],
                       [region |-> "us-east", latency_ms |-> <<200, 1>>,
                        uptime |-> <<95, 100>>] >> )
           => ( /\ status[w] = 200
                /\ response[w] = [r \in {"us-east"} |->
                      [avg_latency |-> <<150, 1>>, p95_latency |-> <<195, 1>>,
                       avg_uptime |-> <<97, 100>>, breaches |-> 1]] )

\* a summary of us-east returned while a US-EAST record is loaded too
SummaryOfMatchingRecordsWitness ==
    \E w \in Workers :
        /\ Succeeded(w)
        /\ "us-east" \in DOMAIN response[w]
        /\ Matching("us-east") # {} /\ Matching("US-EAST") # {}
        /\ response[w]["us-east"].avg_latency = <<100, 1>>

\* C7: the keys of a returned mapping are the distinct requested regions, and
\* each entry is the one a request listing that region once would get.
KeysAreRequestedRegions ==
    \A w \in Workers :
        Succeeded(w) =>
            /\ DOMAIN response[w] = Requested(w)
            /\ \A region \in DOMAIN response[w] :
                  LET once == Alone(telemetry_data,
                                    [body[w] EXCEPT !.regions = <<region>>])
                  IN  /\ once.status = 200
                      /\ response[w][region] = once.response[region]

\* a returned mapping with one entry for a region listed twice
KeysAreRequestedRegionsWitness ==
    \E w \in Workers :
        /\ Succeeded(w)
        /\ body[w].regions = <<"us-east", "us-east">>
        /\ DOMAIN response[w] = {"us-east"}
        /\ response[w]["us-east"] # ZeroSummary

\* C8: once loaded, telemetry_data stays what the file held, and every answer
\* is the one the same request gets when it is the only one ever served on
\* the freshly loaded data.
DatasetImmutable ==
    /\ store = "Loaded" => telemetry_data = source.data
    /\ \A w \in Workers :
          pc[w] = "done" =>
              LET alone == Alone(source.data, body[w])
              IN  status[w] = alone.status /\ response[w] = alone.response

\* one handler has returned while the other is in the middle of its loop
DatasetImmutableWitness ==
    \E w, v \in Workers :
        /\ w # v
        /\ Succeeded(w) /\ Len(body[w].regions) = 2
        /\ response[w] # [r \in Requested(w) |-> ZeroSummary]
        /\ pc[v] = "loop" /\ idx[v] = 2 /\ Len(body[v].regions) = 2

\* C9 as stated: every client input error, a malformed body or wrongly typed
\* fields as much as an empty regions list, is answered with HTTP 400.
ClientErrorsAre400 ==
    \A w \in Workers :
        (pc[w] = "done" /\ (body[w].kind # "valid" \/ body[w].regions = <<>>)) =>
            status[w] = 400

\* C9 amended: an empty regions list is answered 400 with a detail message;
\* a body that does not parse as an AnalyticsRequest is answered 422 with a
\* detail, before the handler runs.
ClientErrorsAre400Or422 ==
    \A w \in Workers :
        pc[w] = "done" =>
            /\ body[w].kind # "valid" =>
                  (status[w] = 422 /\ detail[w] # "" /\ response[w] = EmptyDict)
            /\ (body[w].kind = "valid" /\ body[w].regions = <<>>) =>
                  (status[w] = 400 /\ detail[w] # "")
            /\ status[w] = 422 => body[w].kind # "valid"

\* a body whose threshold_ms is not a number, rejected with 422
ClientErrorsAre400Or422Witness ==
    \E w \in Workers :
        /\ pc[w] = "done"
        /\ body[w].kind = "threshold_not_number"
        /\ status[w] = 422

\* C10: a source that is not a collection of records each having region,
\* latency_ms and uptime keeps the process from starting, so every request
\* is handled over well-formed records and no request fails on the data.
MalformedSourceNeverServed ==
    \A w \in Workers :
        (pc[w] = "done" /\ status[w] \notin {400, 422}) =>
            /\ \A i \in 1..Len(telemetry_data) : WellFormed(telemetry_data[i])
            /\ status[w] = 200

=============================================================================
